---------------------------- MODULE Spec2Model ----------------------------
(***************************************************************************)
(* A model of src/main.py, the alfred-time script filter: one run of       *)
(* main() from the command line to the printed JSON (or the traceback).    *)
(*                                                                         *)
(* Strings that the program parses (the CLI argument, the clipboard text)  *)
(* are sequences of one-character strings.  Optional values are <<>> for   *)
(* Python's None and <<v>> for a value v.  Times are whole seconds.        *)
(***************************************************************************)
EXTENDS Integers, Sequences, FiniteSets, TLC

\* ------------------------------------------------------------- bounds
\* Longest CLI argument / clipboard text, in characters.
MaxLen == 3

\* The characters inputs are made of: white space, signs, digits, letters.
Alphabet == {" ", "-", "+", "0", "1", "A"}

Strings == UNION {[1..n -> Alphabet] : n \in 0..MaxLen}

\* What the date-parse collaborator may print on success (epoch seconds),
\* and what the wall clock may read.
GdateInts == {0, 400, 4000}
NowValues == {400, 4000}

\* ------------------------------------------------------------- constants
DOCS == "https://www.gnu.org/software/coreutils/manual/html_node/Date-input-formats.html"

SANS_TIMEZONE == "%Y-%m-%d %H:%M:%S"
WITH_TIMEZONE == "%Y-%m-%d %H:%M:%S%z"
TIMESTAMP == "%s"

DEFAULT_FORMAT == SANS_TIMEZONE

None == <<>>
Some(v) == <<v>>

\* Python truthiness of an Optional[int]: None and 0 are falsy.
Truthy(o) == o # None /\ o[1] # 0

\* Python's (a or b): a when a is truthy, else b.
Or(a, b) == IF Truthy(a) THEN a ELSE b

\* ------------------------------------------------------------- str methods
IsSpace(c) == c = " "

RECURSIVE LStrip(_)
LStrip(s) == IF s # <<>> /\ IsSpace(Head(s)) THEN LStrip(Tail(s)) ELSE s

RECURSIVE RStrip(_)
RStrip(s) ==
    IF s # <<>> /\ IsSpace(s[Len(s)]) THEN RStrip(SubSeq(s, 1, Len(s) - 1)) ELSE s

\* Mutant of Strip: the argument is used untrimmed.
StripNone(s) == s

\* str.strip()
Strip(s) == RStrip(LStrip(s))

LowerChar(c) == IF c = "A" THEN "a" ELSE c

\* str.lower()
Lower(s) == [i \in 1..Len(s) |-> LowerChar(s[i])]

\* ------------------------------------------------------------- int(s)
Digits == {"0", "1", "2", "3", "4", "5", "6", "7", "8", "9"}

DigitValue(c) ==
    CASE c = "0" -> 0 [] c = "1" -> 1 [] c = "2" -> 2 [] c = "3" -> 3
      [] c = "4" -> 4 [] c = "5" -> 5 [] c = "6" -> 6 [] c = "7" -> 7
      [] c = "8" -> 8 [] c = "9" -> 9

RECURSIVE DecimalValue(_)
DecimalValue(ds) ==
    IF ds = <<>> THEN 0
    ELSE 10 * DecimalValue(SubSeq(ds, 1, Len(ds) - 1)) + DigitValue(ds[Len(ds)])

\* int(s) for a str: surrounding white space is ignored, one optional sign,
\* then at least one decimal digit and nothing else.  FALSE stands for the
\* ValueError.  (Digit-group underscores are not in the input alphabet.)
IsIntLiteral(s) ==
    LET t == Strip(s)
        body == IF t # <<>> /\ t[1] \in {"+", "-"} THEN Tail(t) ELSE t
    IN  body # <<>> /\ \A i \in 1..Len(body) : body[i] \in Digits

IntOf(s) ==
    LET t == Strip(s)
        neg == t[1] = "-"
        body == IF t[1] \in {"+", "-"} THEN Tail(t) ELSE t
    IN  IF neg THEN 0 - DecimalValue(body) ELSE DecimalValue(body)

\* def atoi(s): int(s), None on ValueError.
atoi(s) == IF IsIntLiteral(s) THEN Some(IntOf(s)) ELSE None


\* ------------------------------------------------------------- datetime
\* The local time zones a run may execute in.  A zone has one transition:
\* its UTC offset is z.before for instants earlier than z.at, z.after from
\* z.at on.  The second zone sets its clocks back (wall times repeat), the
\* third sets them forward (wall times are skipped).
Zones ==
    { [name |-> "UTC", before |-> 0, after |-> 0, at |-> 0,
       nameBefore |-> "UTC", nameAfter |-> "UTC"],
      [name |-> "Back", before |-> 7200, after |-> 3600, at |-> 4000,
       nameBefore |-> "CEST", nameAfter |-> "CET"],
      [name |-> "Forward", before |-> 0 - 18000, after |-> 0 - 14400, at |-> 4000,
       nameBefore |-> "EST", nameAfter |-> "EDT"] }

UtcOffset(z, e) == IF e < z.at THEN z.before ELSE z.after

TzName(z, e) == IF e < z.at THEN z.nameBefore ELSE z.nameAfter

\* The instants whose local wall-clock reading in zone z is w.
InstantsOfWall(z, w) ==
    {e \in {w - z.before, w - z.after} : e + UtcOffset(z, e) = w}

SetMin(S) == CHOOSE x \in S : \A y \in S : x <= y
SetMax(S) == CHOOSE x \in S : \A y \in S : x >= y

\* datetime.fromtimestamp(ts): the naive local wall time of instant ts;
\* fold = 1 marks the second occurrence of a repeated wall time.
\* (It raises OverflowError/ValueError for instants outside the platform's
\* time_t or the years 1..9999; inputs of MaxLen characters stay far inside.)
FromTimestamp(z, e) ==
    LET w == e + UtcOffset(z, e)
    IN  [wall |-> w,
         fold |-> IF \E e2 \in InstantsOfWall(z, w) : e2 < e THEN 1 ELSE 0]

\* Mutant of NaiveTimestamp: fold is ignored, a repeated wall time always
\* reads as its first occurrence.
NaiveTimestampNoFold(z, n) ==
    LET c == InstantsOfWall(z, n.wall)
    IN  IF c = {} THEN n.wall - z.before ELSE SetMin(c)

\* The instant a naive local datetime denotes (datetime._mktime): of a
\* repeated wall time the first occurrence for fold = 0, the second for
\* fold = 1; a skipped wall time is read with the offset before the gap.
NaiveTimestamp(z, n) ==
    LET c == InstantsOfWall(z, n.wall)
    IN  IF c = {} THEN n.wall - z.before
        ELSE IF n.fold = 0 THEN SetMin(c) ELSE SetMax(c)

\* naive.astimezone(): the aware datetime in the system's local zone.
AsTimezone(z, n) ==
    LET e == NaiveTimestamp(z, n)
    IN  [wall |-> e + UtcOffset(z, e), utcoffset |-> UtcOffset(z, e),
         tzname |-> TzName(z, e)]

\* aware.timestamp(): (self - _EPOCH).total_seconds()
AwareTimestamp(dt) == dt.wall - dt.utcoffset

\* datetime.fromtimestamp(e, timezone.utc)
UtcFromTimestamp(e) == [wall |-> e, utcoffset |-> 0, tzname |-> "UTC"]

\* dt.strftime(fmt).  The text is kept as the fields it prints: the wall
\* clock reading, and the UTC offset where the format has %z.  "%s" is left
\* to the C library, which is handed dt.timetuple() (the wall clock fields,
\* without the offset); its result stays symbolic.
Strftime(dt, fmt) ==
    CASE fmt = SANS_TIMEZONE -> <<fmt, dt.wall>>
      [] fmt = WITH_TIMEZONE -> <<fmt, dt.wall, dt.utcoffset>>
      [] fmt = TIMESTAMP -> <<fmt, dt.wall>>

\* ------------------------------------------------------------- items
\* class Item(title, subtitle, arg); json.dumps falls back to its __dict__.
Item(title, subtitle, arg) == [title |-> title, subtitle |-> subtitle, arg |-> arg]

\* class DatetimeItem(dt, source, format_)
DatetimeItem(dt, source, format_) == [dt |-> dt, source |-> source, format_ |-> format_]

\* source.name.title()
SourceTitle(s) ==
    CASE s = "CURRENT" -> "Current"
      [] s = "CLIPBOARD" -> "Clipboard"
      [] s = "ARGUMENT" -> "Argument"

\* format_.name.replace('_', ' ').title()
FormatTitle(f) ==
    CASE f = SANS_TIMEZONE -> "Sans Timezone"
      [] f = WITH_TIMEZONE -> "With Timezone"
      [] f = TIMESTAMP -> "Timestamp"

\* The f-string of the subtitle, by its parts.
Subtitle(self) ==
    <<"Copy", SourceTitle(self.source), "Time", FormatTitle(self.format_),
      "To Clipboard", self.dt.tzname>>

\* The keys of mods in DatetimeItem.dict.
ModKeys(self) == IF self.format_ = DEFAULT_FORMAT THEN {"cmd", "ctrl"} ELSE {}

\* Mutant of Mods: the two modifier formats are exchanged.
ModsSwapped(self) ==
    [k \in ModKeys(self) |->
        IF k = "cmd" THEN DatetimeItem(self.dt, self.source, WITH_TIMEZONE)
        ELSE DatetimeItem(self.dt, self.source, TIMESTAMP)]

\* The value of mods in DatetimeItem.dict: cmd and ctrl, or {}.
Mods(self) ==
    [k \in ModKeys(self) |->
        IF k = "cmd" THEN DatetimeItem(self.dt, self.source, TIMESTAMP)
        ELSE DatetimeItem(self.dt, self.source, WITH_TIMEZONE)]

\* DatetimeItem.dict
RECURSIVE DatetimeItemDict(_)
DatetimeItemDict(self) ==
    [title |-> Strftime(self.dt, WITH_TIMEZONE),
     subtitle |-> Subtitle(self),
     arg |-> Strftime(self.dt, self.format_),
     mods |-> [k \in DOMAIN Mods(self) |-> DatetimeItemDict(Mods(self)[k])]]

\* Mutant of Datetimes: the current instant is put before the input-derived one.
DatetimesCurrentFirst(z, ts, source, now) ==
    <<<<AsTimezone(z, FromTimestamp(z, now)), "CURRENT">>>>
    \o (IF Truthy(ts) THEN <<<<AsTimezone(z, FromTimestamp(z, ts[1])), source>>>> ELSE <<>>)

\* datetimes of main: the input-derived instant when ts is truthy, then now.
Datetimes(z, ts, source, now) ==
    (IF Truthy(ts) THEN <<<<AsTimezone(z, FromTimestamp(z, ts[1])), source>>>> ELSE <<>>)
    \o <<<<AsTimezone(z, FromTimestamp(z, now)), "CURRENT">>>>

\* One iteration of main's loop: the local item, then the UTC item.
ExpandPair(t, source) ==
    <<DatetimeItemDict(DatetimeItem(t, source, DEFAULT_FORMAT)),
      DatetimeItemDict(DatetimeItem(UtcFromTimestamp(AwareTimestamp(t)), source,
                                    DEFAULT_FORMAT))>>

RECURSIVE ExpandAll(_)
ExpandAll(datetimes) ==
    IF datetimes = <<>> THEN <<>>
    ELSE ExpandPair(Head(datetimes)[1], Head(datetimes)[2]) \o ExpandAll(Tail(datetimes))

\* What json.dumps(Feedback(items), default=...) serialises: the datetime
\* items through their dict property, the docs item through its __dict__.
\* (The subtitle of the docs item is written without its two backquotes.)
FeedbackJson(datetimes) ==
    [items |-> ExpandAll(datetimes) \o <<Item(DOCS, "Visit gdate docs", DOCS)>>]

\* ------------------------------------------------------------- the run
VARIABLES
    argv,          \* sys.argv: the script name, then the arguments
    zone,          \* the system's local time zone
    pc,            \* where main is: "start", "clipboard", "atoi", "gdate",
                   \*   "build", "exited"
    arg,           \* main's arg
    cb,            \* main's cb (<<>> until the clipboard is read)
    intRes,        \* what atoi returned
    gdateRes,      \* what gdate returned
    ts,            \* main's ts
    source,        \* main's source ("UNBOUND" before its assignment)
    pbpasteCalls,  \* the outcomes of the pbpaste invocations, in order
    gdateCalls,    \* the date invocations, in order: [date, outcome]
    stdout,        \* the lines printed
    raised,        \* the exception that ended main, "none" if none
    exitCode       \* the process's exit status (None while it runs)

vars == <<argv, zone, pc, arg, cb, intRes, gdateRes, ts, source, pbpasteCalls,
          gdateCalls, stdout, raised, exitCode>>

\* The script's own name, sys.argv[0].
PROG == <<"m", "a", "i", "n">>

\* How an invocation of pbpaste can end: it prints the clipboard, exits with
\* a non-zero status, or cannot be started.
PbpasteOutcomes == {"ok", "CalledProcessError", "FileNotFoundError"}

\* How an invocation of date can end: it prints an integer, exits with a
\* non-zero status, cannot be started, or prints something int() rejects.
GdateOutcomes == {"ok", "CalledProcessError", "FileNotFoundError", "ValueError"}

\* Mutant of GdateRaises: gdate has no except clause, a non-zero exit leaves it too.
GdateRaisesAll(outcome) == outcome # "ok"

\* The exceptions gdate lets through: it catches CalledProcessError alone.
GdateRaises(outcome) == outcome \notin {"ok", "CalledProcessError"}

\* Mutant of GdateReturn: 0 instead of None on CalledProcessError.
GdateReturnZero(outcome, k) == IF outcome = "ok" THEN Some(k) ELSE Some(0)

\* gdate's return value when it returns: the integer printed, or None on
\* CalledProcessError.
GdateReturn(outcome, k) == IF outcome = "ok" THEN Some(k) ELSE None

\* seq[i] of Python (zero-based) raises IndexError.
IndexRaises(seq, i) == i + 1 > Len(seq)

\* The string main resolves: arg when it is non-empty, else cb.
EffectiveInput == IF arg # <<>> THEN arg ELSE cb

Init ==
    /\ argv \in {<<PROG>>} \cup {<<PROG, s>> : s \in Strings}
    /\ zone \in Zones
    /\ pc = "start"
    /\ arg = <<>>
    /\ cb = <<>>
    /\ intRes = None
    /\ gdateRes = None
    /\ ts = None
    /\ source = "UNBOUND"
    /\ pbpasteCalls = <<>>
    /\ gdateCalls = <<>>
    /\ stdout = <<>>
    /\ raised = "none"
    /\ exitCode = None

\* An exception main's except clause does not name leaves main: the
\* interpreter prints the traceback to stderr and exits with status 1.
Uncaught(e) ==
    /\ pc' = "exited"
    /\ raised' = e
    /\ exitCode' = Some(1)
    /\ stdout' = stdout

\* except IndexError as e: print(f"Invalid input: {e}"); exit(1)
InvalidInput(msg) ==
    /\ pc' = "exited"
    /\ raised' = "none"
    /\ exitCode' = Some(1)
    /\ stdout' = Append(stdout, <<"Invalid input: ", msg>>)

\* arg = sys.argv[1].strip().lower() if len(sys.argv) > 1 else ""; if arg:
ParseArgv ==
    /\ pc = "start"
    /\ IF Len(argv) > 1 /\ IndexRaises(argv, 1)
       THEN /\ InvalidInput("list index out of range")
            /\ arg' = arg
       ELSE /\ arg' = IF Len(argv) > 1 THEN Lower(Strip(argv[2])) ELSE <<>>
            /\ pc' = IF arg' # <<>> THEN "atoi" ELSE "clipboard"
            /\ UNCHANGED <<stdout, raised, exitCode>>
    /\ UNCHANGED <<argv, zone, cb, intRes, gdateRes, ts, source, pbpasteCalls,
                   gdateCalls>>

\* cb = read_from_clipboard(): check_output(["pbpaste"]).decode().strip()
ReadClipboard ==
    /\ pc = "clipboard"
    /\ \E outcome \in PbpasteOutcomes :
          /\ pbpasteCalls' = Append(pbpasteCalls, outcome)
          /\ IF outcome = "ok"
             THEN /\ \E text \in Strings : cb' = Strip(text)
                  /\ pc' = "atoi"
                  /\ UNCHANGED <<stdout, raised, exitCode>>
             ELSE /\ Uncaught(outcome)
                  /\ cb' = cb
    /\ UNCHANGED <<argv, zone, arg, intRes, gdateRes, ts, source, gdateCalls>>

\* The left operand of (atoi(arg) or gdate(arg)), (atoi(cb) or gdate(cb)):
\* gdate is called when atoi's result is falsy.
ResolveInt ==
    /\ pc = "atoi"
    /\ intRes' = atoi(EffectiveInput)
    /\ pc' = IF Truthy(intRes') THEN "build" ELSE "gdate"
    /\ UNCHANGED <<argv, zone, arg, cb, gdateRes, ts, source, pbpasteCalls,
                   gdateCalls, stdout, raised, exitCode>>

\* The right operand: gdate(arg), gdate(cb).
CallGdate ==
    /\ pc = "gdate"
    /\ \E outcome \in GdateOutcomes, k \in GdateInts :
          /\ outcome # "ok" => k = 0
          /\ gdateCalls' = Append(gdateCalls, [date |-> EffectiveInput,
                                               outcome |-> outcome])
          /\ IF GdateRaises(outcome)
             THEN /\ Uncaught(outcome)
                  /\ gdateRes' = gdateRes
             ELSE /\ gdateRes' = GdateReturn(outcome, k)
                  /\ pc' = "build"
                  /\ UNCHANGED <<stdout, raised, exitCode>>
    /\ UNCHANGED <<argv, zone, arg, cb, intRes, ts, source, pbpasteCalls>>

\* The assignments of ts and source, then lines 108-121: the datetimes, the
\* items, the printed JSON; main returns and the process exits with 0.
BuildAndPrint ==
    /\ pc = "build"
    /\ ts' = Or(intRes, gdateRes)
    /\ source' = IF arg # <<>> THEN "ARGUMENT" ELSE "CLIPBOARD"
    /\ \E now \in NowValues :
          stdout' = Append(stdout,
                           <<"json", FeedbackJson(Datetimes(zone, ts', source', now))>>)
    /\ pc' = "exited"
    /\ exitCode' = Some(0)
    /\ UNCHANGED <<argv, zone, arg, cb, intRes, gdateRes, pbpasteCalls,
                   gdateCalls, raised>>

Next ==
    \/ ParseArgv
    \/ ReadClipboard
    \/ ResolveInt
    \/ CallGdate
    \/ BuildAndPrint

Spec == Init /\ [][Next]_vars

\* ------------------------------------------------------------- reading the output
\* main printed its JSON result list.
PrintedJson == stdout # <<>> /\ stdout[Len(stdout)][1] = "json"

\* The items of the printed result list.
ResultItems == stdout[Len(stdout)][2].items

\* A serialised DatetimeItem (the docs item has no mods field).
IsDatetimeDict(d) == "mods" \in DOMAIN d

IsDocsItem(d) == ~IsDatetimeDict(d) /\ d.title = DOCS /\ d.arg = DOCS

\* The source a serialised datetime item is labelled with.
TaggedAs(d, src) == IsDatetimeDict(d) /\ d.subtitle[2] = SourceTitle(src)

\* A title reads <wall clock><offset>: the instant it denotes.
EpochOfTitle(d) == d.title[2] - d.title[3]

\* a, b are the two items of one instant from source src: a is the rendering
\* in the local zone, b the rendering in UTC, both copying the default format.
IsPairOf(a, b, src) ==
    /\ TaggedAs(a, src) /\ TaggedAs(b, src)
    /\ a.subtitle[4] = "Sans Timezone" /\ b.subtitle[4] = "Sans Timezone"
    /\ a.arg = <<SANS_TIMEZONE, a.title[2]>>
    /\ b.arg = <<SANS_TIMEZONE, b.title[2]>>
    /\ a.title[3] = UtcOffset(zone, EpochOfTitle(a))
    /\ a.subtitle[6] = TzName(zone, EpochOfTitle(a))
    /\ b.title[3] = 0
    /\ b.subtitle[6] = "UTC"

\* The result list is exactly the current-time pair and the docs item.
OnlyCurrentAndDocs ==
    /\ PrintedJson
    /\ Len(ResultItems) = 3
    /\ IsPairOf(ResultItems[1], ResultItems[2], "CURRENT")
    /\ IsDocsItem(ResultItems[3])

\* The string main resolves is known: the argument, or a clipboard read
\* that succeeded.
InputRead == arg # <<>> \/ pbpasteCalls = <<"ok">>

\* atoi has been applied to the effective input.
AtoiDone == InputRead /\ pc \in {"gdate", "build", "exited"}

OnlySpaces(s) == \A i \in 1..Len(s) : s[i] = " "

\* ------------------------------------------------------------- claims

\* C1: for every effective input that parses as a base-10 integer n (0 and
\* negative n included), resolution yields epoch n and gdate is never
\* invoked in that run.
C1_IntegerInputResolvesDirectly ==
    (pc = "exited" /\ InputRead /\ raised = "none" /\ IsIntLiteral(EffectiveInput))
        => (gdateCalls = <<>> /\ ts = Some(IntOf(EffectiveInput)))

\* C2 (as stated): when the input fails integer parsing and the first gdate
\* attempt fails, a second attempt is made with the input prefixed by "@".
C2_AtFallbackAfterFailure ==
    (pc \in {"build", "exited"} /\ AtoiDone /\ atoi(EffectiveInput) = None
        /\ gdateCalls # <<>> /\ gdateCalls[1].outcome # "ok")
        => (/\ Len(gdateCalls) = 2
            /\ gdateCalls[2].date = <<"@">> \o EffectiveInput)

\* C2 (amended): an input that fails integer parsing is delegated to gdate
\* exactly once, as the raw string; no second, "@"-prefixed attempt is ever
\* made; when that one attempt exits non-zero, resolution fails (ts is None
\* and no input-derived item is printed).
C2_SingleGdateAttempt ==
    /\ Len(gdateCalls) <= 1
    /\ \A i \in 1..Len(gdateCalls) : gdateCalls[i].date = EffectiveInput
    /\ (pc \in {"build", "exited"} /\ AtoiDone /\ atoi(EffectiveInput) = None)
          => Len(gdateCalls) = 1
    /\ (pc = "exited" /\ AtoiDone /\ atoi(EffectiveInput) = None
            /\ gdateCalls[1].outcome = "CalledProcessError")
          => (ts = None /\ OnlyCurrentAndDocs)

\* C2 witness: the argument "a" fails integer parsing, its single gdate
\* attempt exits non-zero, and main has printed its list.
C2_Witness ==
    /\ pc = "exited"
    /\ arg = <<"a">>
    /\ gdateCalls = <<[date |-> <<"a">>, outcome |-> "CalledProcessError"]>>
    /\ PrintedJson

\* C3: every printed result list is the input-derived items (none, or one
\* local/UTC pair), then exactly one local/UTC pair tagged CURRENT, then the
\* docs item in last position with title and arg equal to DOCS: 3 or 5 items.
C3_ResultListShape ==
    /\ Len(stdout) <= 1
    /\ PrintedJson =>
          LET it == ResultItems
              n == Len(it)
          IN  /\ n \in {3, 5}
              /\ IsDocsItem(it[n])
              /\ IsPairOf(it[n - 2], it[n - 1], "CURRENT")
              /\ n = 5 => \E src \in {"ARGUMENT", "CLIPBOARD"} :
                              IsPairOf(it[1], it[2], src)

\* C3 witness: a printed list of five items, an ARGUMENT pair before the
\* CURRENT pair.
C3_Witness ==
    /\ PrintedJson
    /\ Len(ResultItems) = 5
    /\ TaggedAs(ResultItems[1], "ARGUMENT")
    /\ TaggedAs(ResultItems[3], "CURRENT")

\* C4: a failure of the clipboard collaborator or of the date-parse
\* collaborator (missing executable, non-zero exit, output that is not an
\* integer) is absorbed: main prints the current-time pair and the docs
\* item and exits with 0, never with an uncaught exception.
C4_CollaboratorFailureAbsorbed ==
    (pc = "exited"
        /\ \/ \E i \in 1..Len(pbpasteCalls) : pbpasteCalls[i] # "ok"
           \/ \E i \in 1..Len(gdateCalls) : gdateCalls[i].outcome # "ok")
        => (raised = "none" /\ exitCode = Some(0) /\ OnlyCurrentAndDocs)

\* C5: a non-empty, non-integer CLI argument that gdate rejects with a
\* non-zero exit gives exactly the two CURRENT items and the docs item, no
\* ARGUMENT-tagged item, and exit code 0.
C5_RejectedArgumentGivesCurrentOnly ==
    (pc = "exited" /\ Len(argv) > 1 /\ argv[2] # <<>> /\ atoi(argv[2]) = None
        /\ gdateCalls = <<[date |-> Lower(Strip(argv[2])),
                           outcome |-> "CalledProcessError"]>>)
        => (/\ exitCode = Some(0)
            /\ raised = "none"
            /\ OnlyCurrentAndDocs
            /\ \A i \in 1..Len(ResultItems) : ~TaggedAs(ResultItems[i], "ARGUMENT"))

\* C5 witness: the argument "A-1" is lowercased, handed to gdate, rejected,
\* and main has exited with 0.
C5_Witness ==
    /\ pc = "exited"
    /\ argv = <<PROG, <<"A", "-", "1">>>>
    /\ gdateCalls = <<[date |-> <<"a", "-", "1">>, outcome |-> "CalledProcessError"]>>
    /\ exitCode = Some(0)

\* C6: with no CLI argument and a clipboard snippet that is the decimal
\* string of an integer n, the printed list starts with the CLIPBOARD pair
\* of instant n (local, then UTC), then the current pair and the docs item.
C6_ClipboardIntegerGivesPair ==
    (pc = "exited" /\ Len(argv) = 1 /\ pbpasteCalls = <<"ok">> /\ IsIntLiteral(cb))
        => (/\ PrintedJson
            /\ Len(ResultItems) = 5
            /\ IsPairOf(ResultItems[1], ResultItems[2], "CLIPBOARD")
            /\ EpochOfTitle(ResultItems[1]) = IntOf(cb)
            /\ EpochOfTitle(ResultItems[2]) = IntOf(cb)
            /\ IsPairOf(ResultItems[3], ResultItems[4], "CURRENT")
            /\ IsDocsItem(ResultItems[5]))

\* C7: a serialised DatetimeItem carries modifier entries iff its format is
\* the default format: every top-level datetime item has exactly cmd (same
\* instant and source, epoch-seconds format) and ctrl (same instant and
\* source, offset-aware format), and each nested item has no modifiers.
C7_ModsOnlyOnDefaultFormat ==
    PrintedJson =>
        \A i \in 1..Len(ResultItems) :
            LET d == ResultItems[i]
                SameInstantAndSource(m) ==
                    /\ m.title = d.title
                    /\ m.subtitle[2] = d.subtitle[2]
                    /\ m.subtitle[6] = d.subtitle[6]
            IN  IsDatetimeDict(d) =>
                  /\ d.subtitle[4] = FormatTitle(DEFAULT_FORMAT)
                  /\ DOMAIN d.mods = {"cmd", "ctrl"}
                  /\ SameInstantAndSource(d.mods["cmd"])
                  /\ d.mods["cmd"].subtitle[4] = "Timestamp"
                  /\ d.mods["cmd"].arg = <<TIMESTAMP, d.title[2]>>
                  /\ DOMAIN d.mods["cmd"].mods = {}
                  /\ SameInstantAndSource(d.mods["ctrl"])
                  /\ d.mods["ctrl"].subtitle[4] = "With Timezone"
                  /\ d.mods["ctrl"].arg = <<WITH_TIMEZONE, d.title[2], d.title[3]>>
                  /\ DOMAIN d.mods["ctrl"].mods = {}

\* C7 witness: a printed UTC item of instant 400 carrying cmd and ctrl.
C7_Witness ==
    /\ PrintedJson
    /\ Len(ResultItems) = 5
    /\ DOMAIN ResultItems[2].mods = {"cmd", "ctrl"}
    /\ ResultItems[2].mods["cmd"].arg = <<TIMESTAMP, 400>>

\* C8: main exits with a non-zero code only on the IndexError path, where
\* it prints one line beginning with "Invalid input: " and no JSON.
C8_NonZeroExitOnlyOnIndexError ==
    (pc = "exited" /\ exitCode # Some(0))
        => (Len(stdout) = 1 /\ stdout[1][1] = "Invalid input: ")

\* C9: the local-zone item and the UTC item of one pair denote the same
\* instant (their titles convert back to the same epoch seconds), and for
\* the input-derived pair that instant is the resolved epoch.
C9_PairDenotesOneInstant ==
    PrintedJson =>
        LET it == ResultItems
            n == Len(it)
        IN  /\ \A k \in 1..((n - 1) \div 2) :
                   EpochOfTitle(it[2 * k - 1]) = EpochOfTitle(it[2 * k])
            /\ n = 5 => (ts # None /\ EpochOfTitle(it[1]) = ts[1])
            /\ EpochOfTitle(it[n - 2]) \in NowValues

\* C9 witness: an input-derived pair at a repeated wall time; instant 4000
\* is the second occurrence of local wall time 7600 in the zone "Back".
C9_Witness ==
    /\ PrintedJson
    /\ Len(ResultItems) = 5
    /\ zone.name = "Back"
    /\ ts = Some(4000)
    /\ ResultItems[1].title = <<WITH_TIMEZONE, 7600, 3600>>
    /\ ResultItems[2].title = <<WITH_TIMEZONE, 4000, 0>>

\* C10 (as stated): whenever sys.argv has a first argument, empty or blank
\* ones included, the clipboard is never read and input-derived items are
\* tagged ARGUMENT; CLIPBOARD tags occur only in runs with no CLI argument.
C10_ClipboardOnlyWithoutArgument ==
    /\ Len(argv) > 1 => pbpasteCalls = <<>>
    /\ (PrintedJson /\ Len(ResultItems) = 5) =>
          IF Len(argv) > 1 THEN TaggedAs(ResultItems[1], "ARGUMENT")
          ELSE TaggedAs(ResultItems[1], "CLIPBOARD")

\* C10 (amended): the clipboard is read exactly when the first argument is
\* absent or, once trimmed of white space, empty.  With a non-blank first
\* argument the clipboard is never read and input-derived items are tagged
\* ARGUMENT; otherwise it is read once and they are tagged CLIPBOARD.
C10_ClipboardIffArgumentBlank ==
    LET blank == Len(argv) = 1 \/ OnlySpaces(argv[2])
    IN  /\ ~blank => pbpasteCalls = <<>>
        /\ (blank /\ pc \notin {"start", "clipboard"}) => Len(pbpasteCalls) = 1
        /\ (PrintedJson /\ Len(ResultItems) = 5) =>
              IF blank
              THEN TaggedAs(ResultItems[1], "CLIPBOARD")
                   /\ TaggedAs(ResultItems[2], "CLIPBOARD")
              ELSE TaggedAs(ResultItems[1], "ARGUMENT")
                   /\ TaggedAs(ResultItems[2], "ARGUMENT")

\* C10 witness: a first argument of two blanks, the clipboard read, and
\* the input-derived pair tagged CLIPBOARD.
C10_Witness ==
    /\ argv = <<PROG, <<" ", " ">>>>
    /\ pbpasteCalls = <<"ok">>
    /\ PrintedJson
    /\ Len(ResultItems) = 5
    /\ TaggedAs(ResultItems[1], "CLIPBOARD")

=============================================================================
